---- MODULE Spec2Model ----
(***************************************************************************)
(* Conway's Game of Life in a terminal (src/conway.c; src/life.c and       *)
(* src/uncommented.c are the same program with a portable sleep helper).   *)
(*                                                                         *)
(* A char is a one-character string; NUL is the string terminator.  A row  *)
(* of the grid is the C array grid[i][0..cols]: a function on 0..cols      *)
(* whose last element is the terminator.  A file and a file name are       *)
(* sequences of chars.  The process is at one of its blocking points:      *)
(* "boot" (start of main), "bootmsg" (the 2 s sleep after a failed         *)
(* import), "edit" (getch of the setup loop), "prompt" (getnstr),          *)
(* "savemsg" (the 2 s sleep after a save attempt), "run" (getch of the     *)
(* simulation loop) and "done" (main has returned).                        *)
(***************************************************************************)
EXTENDS Bags, FiniteSets, Integers, Sequences, TLC

VARIABLES
    term,       \* the terminal size getmaxyx reports: [rows, cols]
    argv,       \* the argument vector, a function on 0..argc-1
    disk,       \* the file system: file name -> file contents
    rows,       \* global int rows
    cols,       \* global int cols
    grid,       \* global char **grid
    next_grid,  \* global char **next_grid
    heap,       \* "unallocated", "allocated" (init_grid), "freed" (free_grid)
    pc,         \* the blocking point the process is at
    paused,     \* bool paused of main
    filename,   \* char filename[256] of the save prompt
    scr,        \* screen rows 0..rows-1 as last drawn
    status,     \* screen row `rows`: <<text, file name printed after it>>
    exitcode,   \* <<>> while main runs, <<0>> once it has returned 0
    opened,     \* history: every fopen attempted, <<file name, mode>>
    loaded,     \* history: the grid as it was when the setup loop was entered
    toggles,    \* history: bag of the cells toggled by clicks
    keys        \* the input queue of curses: keys typed, not yet read by getch

\* The variables of the program, and those with its input queue.
progvars == <<term, argv, disk, rows, cols, grid, next_grid, heap, pc, paused,
              filename, scr, status, exitcode, opened, loaded, toggles>>

vars == <<progvars, keys>>

(***************************************************************************)
(* Bounds of the model.                                                    *)
(***************************************************************************)
MaxCells == 4       \* cells of the grids of Spec: rows * cols <= MaxCells
RunCells == 9       \* cells of the grids of SpecRun: rows * cols <= RunCells
EdgeCols == 2       \* columns clicked at each end of a row
MaxClicks == 2      \* in-grid clicks of one setup phase
MaxSaves == 1       \* saves of one setup phase
MaxBurst == 3       \* keys queued when the simulation loop is entered

(***************************************************************************)
(* Characters, keys and strings of the program.                            *)
(***************************************************************************)
ALIVE == "#"
DEAD == "-"
NL == "\n"
NUL == "NUL"
BUFSZ == 1024
ERR == "ERR"
KEY_MOUSE == "KEY_MOUSE"
ImportFlag == <<"-", "-", "i", "m", "p", "o", "r", "t">>
EditMsg == "setup: click to toggle cell (#). press 's' to start simulation, 'w' to save setup."
PromptMsg == "enter filename to save: "
SavedMsg == "grid saved to "
SaveErrMsg == "error: unable to save file: "
ImportErrMsg == "error: could not import file: "
RunMsg == "simulation running. press 'p' to pause/resume, 'q' to quit."
PauseMsg == "simulation paused. press 'p' to resume, 'q' to quit."

Min(a, b) == IF a <= b THEN a ELSE b

MinOf(S) == CHOOSE k \in S : \A m \in S : k <= m

(***************************************************************************)
(* The grid.                                                               *)
(***************************************************************************)
\* One row as init_grid leaves it: cols dead cells and the terminator.
DeadRow(C) == [j \in 0..C |-> IF j < C THEN DEAD ELSE NUL]

\* init_grid: both grids get R rows of C dead cells.
init_grid(R, C) == [i \in 0..(R - 1) |-> DeadRow(C)]

\* The C string stored in a char array: the chars before the first NUL.
CStr(row) ==
    LET Z == {j \in DOMAIN row : row[j] = NUL}
        n == IF Z = {} THEN Cardinality(DOMAIN row) ELSE MinOf(Z)
    IN  [k \in 1..n |-> row[k - 1]]

\* The grid part of draw_grid: mvaddnstr(i, 0, grid[i], cols) for each row.
draw_grid(g, R, C) ==
    [i \in 0..(R - 1) |-> SubSeq(CStr(g[i]), 1, Min(C, Len(CStr(g[i]))))]

\* The rows 0..R-1 of the screen after initscr: blank.
Blank(R, C) == [i \in 0..(R - 1) |-> [k \in 1..C |-> " "]]

\* A slip of the row output: one character too few is written.
mvaddnstr_short(old, str, n) ==
    [k \in 1..Len(old) |-> IF k <= Min(n - 1, Len(str)) THEN str[k] ELSE old[k]]

\* mvaddnstr(i, 0, str, n) on a screen row showing `old`: at most n chars of
\* str are written from column 0, the rest of the row stays as it was.
mvaddnstr(old, str, n) ==
    [k \in 1..Len(old) |-> IF k <= Min(n, Len(str)) THEN str[k] ELSE old[k]]

\* The grid part of draw_grid on a screen whose rows 0..R-1 show `screen`.
draw_grid_on(screen, g, R, C) ==
    [i \in 0..(R - 1) |-> mvaddnstr(screen[i], CStr(g[i]), C)]

\* A slip of count_neighbors: the neighbours are taken modulo the grid
\* dimensions, so the grid wraps around at its edges.
count_neighbors_wrap(g, R, C, r, c) ==
    Cardinality({d \in (-1..1) \X (-1..1) :
        /\ ~(d[1] = 0 /\ d[2] = 0)
        /\ g[(r + d[1] + R) % R][(c + d[2] + C) % C] = ALIVE})

\* count_neighbors: the '#' cells among the in-bounds neighbours of (r, c).
count_neighbors(g, R, C, r, c) ==
    Cardinality({d \in (-1..1) \X (-1..1) :
        /\ ~(d[1] = 0 /\ d[2] = 0)
        /\ r + d[1] >= 0 /\ r + d[1] < R
        /\ c + d[2] >= 0 /\ c + d[2] < C
        /\ g[r + d[1]][c + d[2]] = ALIVE})

\* A slip of the rule: a dead cell is born with no alive neighbour as well.
NextCellBornAlone(g, R, C, i, j) ==
    LET neighbors == count_neighbors(g, R, C, i, j)
    IN  IF g[i][j] = ALIVE
        THEN (IF neighbors = 2 \/ neighbors = 3 THEN ALIVE ELSE DEAD)
        ELSE (IF neighbors = 3 \/ neighbors = 0 THEN ALIVE ELSE DEAD)

\* The value update_generation stores in next_grid[i][j].
NextCell(g, R, C, i, j) ==
    LET neighbors == count_neighbors(g, R, C, i, j)
    IN  IF g[i][j] = ALIVE
        THEN (IF neighbors = 2 \/ neighbors = 3 THEN ALIVE ELSE DEAD)
        ELSE (IF neighbors = 3 THEN ALIVE ELSE DEAD)

\* A slip of update_generation: the new value is stored in grid itself, cell
\* by cell in row-major order, so later cells read already updated ones.
RECURSIVE InPlaceFrom(_, _, _, _)
InPlaceFrom(g, R, C, k) ==
    IF k >= R * C THEN g
    ELSE LET i == k \div C
             j == k % C
         IN  InPlaceFrom([g EXCEPT ![i][j] = NextCell(g, R, C, i, j)], R, C, k + 1)

update_generation_inplace(g, ng, R, C) ==
    [grid |-> InPlaceFrom(g, R, C, 0), next_grid |-> InPlaceFrom(g, R, C, 0)]

\* A slip of update_generation: only the alive cells are stored, so the dead
\* ones keep what the workspace held.
update_generation_stale(g, ng, R, C) ==
    LET filled == [i \in 0..(R - 1) |->
                      [j \in 0..C |->
                          IF j < C /\ NextCell(g, R, C, i, j) = ALIVE
                          THEN ALIVE ELSE ng[i][j]]]
    IN  [grid |-> [i \in 0..(R - 1) |->
                      [j \in 0..C |-> IF j < C THEN filled[i][j] ELSE g[i][j]]],
         next_grid |-> filled]

\* update_generation: next_grid is filled from grid, then copied back
\* (columns 0..cols-1 only; the terminators stay).
update_generation(g, ng, R, C) ==
    LET filled == [i \in 0..(R - 1) |->
                      [j \in 0..C |-> IF j < C THEN NextCell(g, R, C, i, j)
                                               ELSE ng[i][j]]]
    IN  [grid |-> [i \in 0..(R - 1) |->
                      [j \in 0..C |-> IF j < C THEN filled[i][j] ELSE g[i][j]]],
         next_grid |-> filled]

(***************************************************************************)
(* The snapshot codec.                                                     *)
(***************************************************************************)
\* fprintf(fp, "%s\n", grid[i]) for rows i..R-1: the bytes written.
RECURSIVE SaveRows(_, _, _)
SaveRows(g, R, i) ==
    IF i >= R THEN <<>> ELSE CStr(g[i]) \o <<NL>> \o SaveRows(g, R, i + 1)

\* A slip of save_grid_to_file: the rows are written without the newline.
RECURSIVE SaveRowsNoNewline(_, _, _)
SaveRowsNoNewline(g, R, i) ==
    IF i >= R THEN <<>> ELSE CStr(g[i]) \o SaveRowsNoNewline(g, R, i + 1)

save_grid_to_file_nonl(g, R) == SaveRowsNoNewline(g, R, 0)

\* save_grid_to_file, once fopen has succeeded: the contents of the file.
save_grid_to_file(g, R) == SaveRows(g, R, 0)

\* fgets(buffer, sizeof(buffer), fp) with `pos` bytes of f already read: the
\* bytes stored in buffer before the terminator; <<>> when fgets returns
\* NULL.  It stops after a newline, at end of file, or at BUFSZ - 1 bytes.
Fgets(f, pos) ==
    LET last == Min(Len(f), pos + BUFSZ - 1)
        N == {k \in (pos + 1)..last : f[k] = NL}
    IN  SubSeq(f, pos + 1, IF N = {} THEN last ELSE MinOf(N))

\* strlen(buffer) after that fgets: the bytes before the first NUL.
Strlen(buf) ==
    LET Z == {k \in 1..Len(buf) : buf[k] = NUL}
    IN  IF Z = {} THEN Len(buf) ELSE MinOf(Z) - 1

\* A slip of the row loop: the bytes of the line are stored as they are.
ImportRowRaw(buf, C) ==
    LET len0 == Strlen(buf)
        len == IF len0 > 0 /\ buf[len0] = NL THEN len0 - 1 ELSE len0
    IN  [j \in 0..C |->
            IF j < C THEN (IF j < len THEN buf[j + 1] ELSE DEAD) ELSE NUL]

\* The body of the row loop of import_grid_from_file for one buffer.
ImportRow(buf, C) ==
    LET len0 == Strlen(buf)
        len == IF len0 > 0 /\ buf[len0] = NL THEN len0 - 1 ELSE len0
    IN  [j \in 0..C |->
            IF j < C
            THEN (IF j < len
                  THEN (IF buf[j + 1] = ALIVE THEN ALIVE ELSE DEAD)
                  ELSE DEAD)
            ELSE NUL]

\* The row loop of import_grid_from_file from row i on; it stops at the
\* first fgets that returns NULL and leaves the remaining rows as they are.
RECURSIVE ImportRows(_, _, _, _, _, _)
ImportRows(f, pos, i, g, R, C) ==
    IF i >= R \/ Fgets(f, pos) = <<>> THEN g
    ELSE ImportRows(f, pos + Len(Fgets(f, pos)), i + 1,
                    [g EXCEPT ![i] = ImportRow(Fgets(f, pos), C)], R, C)

\* import_grid_from_file, once fopen has succeeded: the grid it leaves.
import_grid_from_file(f, g, R, C) == ImportRows(f, 0, 0, g, R, C)

(***************************************************************************)
(* The environment: terminals, argument vectors, files, keys.              *)
(***************************************************************************)
\* A C argument vector from the sequence of its strings.
Args(seq) == [i \in 0..(Len(seq) - 1) |-> seq[i + 1]]

argc == Cardinality(DOMAIN argv)

Prog == <<"c", "o", "n", "w", "a", "y">>
InName == <<"f">>
MissingName == <<"m">>
OtherArg == <<"-", "x">>

\* n copies of the char ch.
Rep(ch, n) == [k \in 1..n |-> ch]

\* The contents the file InName may have.
InFiles ==
    { <<>>,
      <<ALIVE>>,
      <<ALIVE, DEAD, NL, DEAD, ALIVE, NL>>,
      <<DEAD, ALIVE, "x", NL, NL, ALIVE, NL>>,
      <<"x", ALIVE, NL, ALIVE, ALIVE>>,
      <<NUL, ALIVE, NL, ALIVE, NL>>,
      Rep(DEAD, BUFSZ - 1) \o <<NL, ALIVE, NL>>,
      Rep(DEAD, BUFSZ - 1) \o <<ALIVE, NL>> }

\* Argument vectors that request no import, and those that request one.
PlainArgs ==
    { Args(<<Prog>>), Args(<<Prog, ImportFlag>>),
      Args(<<Prog, InName, ImportFlag>>), Args(<<Prog, OtherArg, InName>>) }

ImportArgs ==
    { Args(<<Prog, ImportFlag, InName>>), Args(<<Prog, ImportFlag, MissingName>>),
      Args(<<Prog, ImportFlag, InName, OtherArg>>) }

\* The starts of the program: without import; importing each content of
\* InName; importing a missing file, or with one more argument.
Starts ==
    [argv : PlainArgs, disk : {[n \in {InName} |-> <<ALIVE>>]}]
    \cup [argv : {Args(<<Prog, ImportFlag, InName>>)},
          disk : [{InName} -> InFiles]]
    \cup [argv : ImportArgs,
          disk : {[n \in {InName} |-> <<ALIVE, DEAD, NL, DEAD, ALIVE, NL>>]}]

\* The keys the model types in each loop, and at the prompt.
EditIgnoredKeys == {"q", "p"}
RunKeys == {ERR, "q", "p", "s", "w", KEY_MOUSE}
PromptKeys == {"s", "w", "q", "p"}

\* The lines entered at the save prompt, and what is typed on the way.
SaveNames == {<<>>, <<"s", "w">>, <<"q", "p">>}

TypedNames == UNION {{SubSeq(n, 1, k) : k \in 0..Len(n)} : n \in SaveNames}

\* The click columns tried on a terminal of C columns: the EdgeCols first
\* and last ones, which is every column of a narrow terminal, and the
\* columns just outside the grid.
ClickCols(C) == {x \in -1..C : x < EdgeCols \/ x >= C - EdgeCols}

\* The terminals whose grid (all rows but the last) has at most n cells.
Terminals(n) ==
    {t \in [rows : 1..(n + 1), cols : 1..n] : (t.rows - 1) * t.cols <= n}

\* The disk with file `name` (re)written with `data`.
WriteFile(d, name, data) ==
    [n \in DOMAIN d \cup {name} |-> IF n = name THEN data ELSE d[n]]

(***************************************************************************)
(* main.                                                                   *)
(***************************************************************************)
\* A slip of the input loop: a read takes every queued key and acts on the
\* last one.
GetchDrain(ch) ==
    /\ keys # <<>> => ch = keys[Len(keys)]
    /\ keys' = <<>>

\* getch (and the reads of getnstr) returns ch: the oldest queued key if
\* there is one, which leaves the queue; else the key that arrives, or ERR
\* in no-delay mode when none does.
Getch(ch) ==
    /\ keys # <<>> => ch = Head(keys)
    /\ keys' = IF keys = <<>> THEN keys ELSE Tail(keys)

\* The process before main runs: zeroed globals, nothing on the screen.
InitProcess ==
    /\ rows = 0 /\ cols = 0
    /\ grid = <<>> /\ next_grid = <<>>
    /\ heap = "unallocated"
    /\ pc = "boot"
    /\ paused = FALSE
    /\ filename = <<>>
    /\ scr = <<>>
    /\ status = <<"", <<>>>>
    /\ exitcode = <<>>
    /\ opened = {}
    /\ loaded = <<>>
    /\ toggles = EmptyBag
    /\ keys = <<>>

Init ==
    /\ term \in Terminals(MaxCells)
    /\ \E s \in Starts : argv = s.argv /\ disk = s.disk
    /\ InitProcess

\* A slip of the import condition: the first argument is not compared.
WantsImportAnyFlag(av) ==
    Cardinality(DOMAIN av) >= 3

\* The import condition of main.
WantsImport(av) ==
    Cardinality(DOMAIN av) >= 3 /\ av[1] = ImportFlag

\* main from its start to the first getch, or to the sleep after a failed
\* import: getmaxyx, init_grid, the optional import, draw_grid.
Boot ==
    /\ pc = "boot"
    /\ rows' = term.rows - 1
    /\ cols' = term.cols
    /\ next_grid' = init_grid(rows', cols')
    /\ heap' = "allocated"
    /\ IF WantsImport(argv)
       THEN /\ opened' = opened \cup {<<argv[2], "r">>}
            /\ IF argv[2] \in DOMAIN disk
               THEN /\ grid' = import_grid_from_file(disk[argv[2]],
                                    init_grid(rows', cols'), rows', cols')
                    /\ scr' = draw_grid_on(Blank(rows', cols'), grid',
                                         rows', cols')
                    /\ status' = <<EditMsg, <<>>>>
                    /\ pc' = "edit"
               ELSE /\ grid' = init_grid(rows', cols')
                    /\ scr' = Blank(rows', cols')
                    /\ status' = <<ImportErrMsg, argv[2]>>
                    /\ pc' = "bootmsg"
       ELSE /\ opened' = opened
            /\ grid' = init_grid(rows', cols')
            /\ scr' = draw_grid_on(Blank(rows', cols'), grid',
                                 rows', cols')
            /\ status' = <<EditMsg, <<>>>>
            /\ pc' = "edit"
    /\ loaded' = grid'
    /\ UNCHANGED <<keys, term, argv, disk, paused, filename, exitcode, toggles>>

\* A slip of the failed import: the program gives up instead of returning.
BootMsgDoneFatal ==
    /\ pc = "bootmsg"
    /\ pc' = "done"
    /\ heap' = "freed"
    /\ exitcode' = <<1>>
    /\ UNCHANGED <<keys, term, argv, disk, rows, cols, grid, next_grid, paused,
                   filename, scr, status, opened, loaded, toggles>>

\* The sleep after a failed import ends: import_grid_from_file returns and
\* main draws the setup screen.
BootMsgDone ==
    /\ pc = "bootmsg"
    /\ scr' = draw_grid_on(scr, grid, rows, cols)
    /\ status' = <<EditMsg, <<>>>>
    /\ pc' = "edit"
    /\ UNCHANGED <<keys, term, argv, disk, rows, cols, grid, next_grid, heap, paused,
                   filename, exitcode, opened, loaded, toggles>>

\* A slip of the toggle: a cell can be set alive but never back.
ToggleSetOnly(g, y, x) == [g EXCEPT ![y][x] = ALIVE]

\* The toggle of the setup loop on grid[y][x].
Toggle(g, y, x) == [g EXCEPT ![y][x] = IF @ = DEAD THEN ALIVE ELSE DEAD]

\* A slip of the range test: the status row counts as a row of the grid.
InGridRowOffByOne(y, x, R, C) == y >= 0 /\ y <= R /\ x >= 0 /\ x < C

\* A slip of the range test: the column of the terminator counts as a cell.
InGridOffByOne(y, x, R, C) == y >= 0 /\ y < R /\ x >= 0 /\ x <= C

\* The range test of the setup loop on a mouse event.
InGrid(y, x, R, C) == y >= 0 /\ y < R /\ x >= 0 /\ x < C

\* Setup loop, getch returns KEY_MOUSE and getmouse an event at (x, y).
EditClick(y, x) ==
    /\ pc = "edit"
    /\ Getch(KEY_MOUSE)
    /\ IF InGrid(y, x, rows, cols)
       THEN /\ BagCardinality(toggles) < MaxClicks
            /\ grid' = Toggle(grid, y, x)
            /\ scr' = draw_grid_on(scr, grid', rows, cols)
            /\ status' = <<EditMsg, <<>>>>
            /\ toggles' = toggles (+) SetToBag({<<y, x>>})
       ELSE UNCHANGED <<grid, scr, status, toggles>>
    /\ UNCHANGED <<term, argv, disk, rows, cols, next_grid, heap, pc, paused,
                   filename, exitcode, opened, loaded>>

\* Setup loop, getch returns KEY_MOUSE but getmouse has no event.
EditMouseFail ==
    /\ pc = "edit"
    /\ Getch(KEY_MOUSE)
    /\ UNCHANGED progvars

\* A slip of the setup loop: 'q' ends the program there too.
EditIgnoreQuits(ch) ==
    /\ pc = "edit"
    /\ Getch(ch)
    /\ ch \notin {"s", "w", KEY_MOUSE}
    /\ IF ch = "q"
       THEN /\ pc' = "done" /\ heap' = "freed" /\ exitcode' = <<0>>
            /\ UNCHANGED <<term, argv, disk, rows, cols, grid, next_grid,
                           paused, filename, scr, status, opened, loaded,
                           toggles>>
       ELSE UNCHANGED progvars

\* Setup loop, getch returns a key that is neither 's', 'w' nor KEY_MOUSE.
EditIgnore(ch) ==
    /\ pc = "edit"
    /\ Getch(ch)
    /\ ch \notin {"s", "w", KEY_MOUSE}
    /\ UNCHANGED progvars

\* Setup loop, getch returns 'w': the prompt is shown and getnstr starts.
EditSavePrompt ==
    /\ pc = "edit"
    /\ Getch("w")
    /\ Cardinality({o \in opened : o[2] = "w"}) < MaxSaves
    /\ status' = <<PromptMsg, <<>>>>
    /\ filename' = <<>>
    /\ pc' = "prompt"
    /\ UNCHANGED <<term, argv, disk, rows, cols, grid, next_grid, heap, paused,
                   scr, exitcode, opened, loaded, toggles>>

\* A slip of the prompt: the setup loop's key test also sees what is typed
\* at the prompt, so an 's' there starts the simulation.
PromptTypeStarts(k) ==
    /\ pc = "prompt"
    /\ Getch(k)
    /\ Append(filename, k) \in TypedNames
    /\ filename' = Append(filename, k)
    /\ status' = <<PromptMsg, filename'>>
    /\ pc' = IF k = "s" THEN "run" ELSE pc
    /\ paused' = IF k = "s" THEN FALSE ELSE paused
    /\ UNCHANGED <<term, argv, disk, rows, cols, grid, next_grid, heap,
                   scr, exitcode, opened, loaded, toggles>>

\* getnstr reads one character of the file name and echoes it.
PromptType(k) ==
    /\ pc = "prompt"
    /\ Getch(k)
    /\ Append(filename, k) \in TypedNames
    /\ filename' = Append(filename, k)
    /\ status' = <<PromptMsg, filename'>>
    /\ UNCHANGED <<term, argv, disk, rows, cols, grid, next_grid, heap, pc,
                   paused, scr, exitcode, opened, loaded, toggles>>

\* getnstr reads Enter after a whole line: save_grid_to_file runs up to its
\* sleep.  fopen fails on the empty file name.
PromptEnter ==
    /\ pc = "prompt"
    /\ Getch(NL)
    /\ filename \in SaveNames
    /\ opened' = opened \cup {<<filename, "w">>}
    /\ IF filename = <<>>
       THEN /\ status' = <<SaveErrMsg, filename>>
            /\ disk' = disk
       ELSE /\ status' = <<SavedMsg, filename>>
            /\ disk' = WriteFile(disk, filename, save_grid_to_file(grid, rows))
    /\ pc' = "savemsg"
    /\ UNCHANGED <<term, argv, rows, cols, grid, next_grid, heap, paused,
                   filename, scr, exitcode, loaded, toggles>>

\* A slip of the 'w' branch: the setup screen is not drawn again after the
\* save, so the message of the save stays on the status row.
SaveMsgDoneNoRedraw ==
    /\ pc = "savemsg"
    /\ filename' = <<>>
    /\ pc' = "edit"
    /\ UNCHANGED <<keys, term, argv, disk, rows, cols, grid, next_grid, heap, paused,
                   scr, status, exitcode, opened, loaded, toggles>>

\* The sleep of save_grid_to_file ends: it returns and the setup screen is
\* drawn again.
SaveMsgDone ==
    /\ pc = "savemsg"
    /\ scr' = draw_grid_on(scr, grid, rows, cols)
    /\ status' = <<EditMsg, <<>>>>
    /\ filename' = <<>>
    /\ pc' = "edit"
    /\ UNCHANGED <<keys, term, argv, disk, rows, cols, grid, next_grid, heap, paused,
                   exitcode, opened, loaded, toggles>>

\* A slip of the start of the simulation loop: the pause flag starts set.
EditStartPaused ==
    /\ pc = "edit"
    /\ Getch("s")
    /\ paused' = TRUE
    /\ pc' = "run"
    /\ UNCHANGED <<term, argv, disk, rows, cols, grid, next_grid, heap,
                   filename, scr, status, exitcode, opened, loaded, toggles>>

\* Setup loop, getch returns 's': the loop ends, the simulation loop starts.
EditStart ==
    /\ pc = "edit"
    /\ Getch("s")
    /\ paused' = FALSE
    /\ pc' = "run"
    /\ UNCHANGED <<term, argv, disk, rows, cols, grid, next_grid, heap,
                   filename, scr, status, exitcode, opened, loaded, toggles>>

\* A slip of the key test: 's' flips the pause flag as 'p' does.
PausedAfterStartKey(p, ch) == IF ch = "p" \/ ch = "s" THEN ~p ELSE p

\* A slip of the key test: 'p' can pause but never resume.
PausedAfterSticky(p, ch) == IF ch = "p" THEN TRUE ELSE p

\* The pause flag after the key test of one simulation tick.
PausedAfter(p, ch) == IF ch = "p" THEN ~p ELSE p

\* A slip of the simulation loop: the test of the pause flag is inverted.
TickGridsInverted(g, ng, R, C, p) ==
    IF p THEN update_generation(g, ng, R, C) ELSE [grid |-> g, next_grid |-> ng]

\* A slip of the simulation loop: update_generation runs outside the test
\* of the pause flag.
TickGridsAlways(g, ng, R, C, p) == update_generation(g, ng, R, C)

\* The grids after the `if (!paused)` of one simulation tick.
TickGrids(g, ng, R, C, p) ==
    IF ~p THEN update_generation(g, ng, R, C) ELSE [grid |-> g, next_grid |-> ng]

\* One iteration of the simulation loop, getch returning ch (ERR: no key).
\* On 'q' the loop ends: free_grid, endwin, return 0.
RunTick(ch) ==
    /\ pc = "run"
    /\ Getch(ch)
    /\ IF ch = "q"
       THEN /\ pc' = "done"
            /\ heap' = "freed"
            /\ exitcode' = <<0>>
            /\ UNCHANGED <<grid, next_grid, paused, scr, status>>
       ELSE /\ paused' = PausedAfter(paused, ch)
            /\ LET t == TickGrids(grid, next_grid, rows, cols, paused')
               IN  grid' = t.grid /\ next_grid' = t.next_grid
            /\ scr' = draw_grid_on(scr, grid', rows, cols)
            /\ status' = <<IF ~paused' THEN RunMsg ELSE PauseMsg, <<>>>>
            /\ UNCHANGED <<pc, heap, exitcode>>
    /\ UNCHANGED <<term, argv, disk, rows, cols, filename, opened, loaded,
                   toggles>>

(***************************************************************************)
(* The grid elements each operation reads or writes, <<row, column>>, from *)
(* the bounds of its loops and the tests in front of its accesses.         *)
(***************************************************************************)
\* The toggle of the setup loop on a click at (x, y).
ToggleCells(y, x, R, C) == IF InGrid(y, x, R, C) THEN {<<y, x>>} ELSE {}

\* count_neighbors(r, c): the grid[nr][nc] it reads.
NeighborReads(R, C, r, c) ==
    {<<r + d[1], c + d[2]>> : d \in {e \in (-1..1) \X (-1..1) :
        /\ ~(e[1] = 0 /\ e[2] = 0)
        /\ r + e[1] >= 0 /\ r + e[1] < R
        /\ c + e[2] >= 0 /\ c + e[2] < C}}

\* update_generation: the cells of both loops, and what count_neighbors
\* reads for each.
StepCells(R, C) ==
    ((0..(R - 1)) \X (0..(C - 1)))
    \cup UNION {NeighborReads(R, C, q[1], q[2]) :
                   q \in (0..(R - 1)) \X (0..(C - 1))}

\* import_grid_from_file: the rows its loop fills from row i on.
RECURSIVE LoadRows(_, _, _, _)
LoadRows(f, pos, i, R) ==
    IF i >= R \/ Fgets(f, pos) = <<>> THEN {}
    ELSE {i} \cup LoadRows(f, pos + Len(Fgets(f, pos)), i + 1, R)

\* import_grid_from_file: the cells it writes, and the terminators.
LoadCells(f, R, C) == LoadRows(f, 0, 0, R) \X (0..(C - 1))

LoadTerminators(f, R, C) == LoadRows(f, 0, 0, R) \X {C}

\* save_grid_to_file: fprintf with %s reads each row up to and including
\* its first NUL.
SaveReads(g, R) ==
    UNION {{i} \X (0..Len(CStr(g[i]))) : i \in 0..(R - 1)}

\* draw_grid: mvaddnstr reads at most C characters of each row.
DrawReads(g, R, C) ==
    UNION {{i} \X (0..(Min(C, Len(CStr(g[i]))) - 1)) : i \in 0..(R - 1)}

Next ==
    \/ Boot
    \/ BootMsgDone
    \/ \E y \in -1..rows, x \in ClickCols(cols) : EditClick(y, x)
    \/ EditMouseFail
    \/ \E ch \in EditIgnoredKeys : EditIgnore(ch)
    \/ EditSavePrompt
    \/ \E k \in PromptKeys : PromptType(k)
    \/ PromptEnter
    \/ SaveMsgDone
    \/ EditStart
    \/ \E ch \in RunKeys : RunTick(ch)

Spec == Init /\ [][Next]_vars

(***************************************************************************)
(* The program up to the end of its setup phase: the same starts and the   *)
(* same steps as Spec, short of the 's' that starts the simulation loop.    *)
(***************************************************************************)
NextSetup ==
    \/ Boot
    \/ BootMsgDone
    \/ \E y \in -1..rows, x \in ClickCols(cols) : EditClick(y, x)
    \/ EditMouseFail
    \/ \E ch \in EditIgnoredKeys : EditIgnore(ch)
    \/ EditSavePrompt
    \/ \E k \in PromptKeys : PromptType(k)
    \/ PromptEnter
    \/ SaveMsgDone

SpecSetup == Init /\ [][NextSetup]_vars

(***************************************************************************)
(* The simulation loop alone, entered with every grid the setup phase can  *)
(* leave on a grid of at most RunCells cells: no import, each alive      *)
(* cell clicked once, then 's'.                                            *)
(***************************************************************************)
\* The grid of R x C cells whose alive cells are those of A.
GridOf(R, C, A) ==
    [i \in 0..(R - 1) |->
        [j \in 0..C |-> IF j = C THEN NUL
                        ELSE IF <<i, j>> \in A THEN ALIVE ELSE DEAD]]

InitRun ==
    /\ term \in {t \in Terminals(RunCells) : t.rows >= 2}
    /\ argv = Args(<<Prog>>)
    /\ disk = [n \in {InName} |-> <<ALIVE>>]
    /\ rows = term.rows - 1
    /\ cols = term.cols
    /\ \E A \in SUBSET ((0..(rows - 1)) \X (0..(cols - 1))) :
          /\ grid = GridOf(rows, cols, A)
          /\ toggles = SetToBag(A)
    /\ next_grid = init_grid(rows, cols)
    /\ loaded = init_grid(rows, cols)
    /\ heap = "allocated"
    /\ pc = "run"
    /\ paused = FALSE
    /\ filename = <<>>
    /\ scr = draw_grid(grid, rows, cols)
    /\ status = <<EditMsg, <<>>>>
    /\ exitcode = <<>>
    /\ opened = {}
    /\ keys = <<>>

NextRun == \E ch \in RunKeys : RunTick(ch)

SpecRun == InitRun /\ [][NextRun]_vars

(***************************************************************************)
(* The simulation loop entered with a burst of keys already queued, on     *)
(* every grid of at most MaxCells cells.                                   *)
(***************************************************************************)
BurstKeys == {"p", "q", "s", KEY_MOUSE}

Bursts == UNION {[1..n -> BurstKeys] : n \in 1..MaxBurst}

InitBurst ==
    /\ term \in {t \in Terminals(MaxCells) : t.rows >= 2}
    /\ argv = Args(<<Prog>>)
    /\ disk = [n \in {InName} |-> <<ALIVE>>]
    /\ rows = term.rows - 1
    /\ cols = term.cols
    /\ \E A \in SUBSET ((0..(rows - 1)) \X (0..(cols - 1))) :
          /\ grid = GridOf(rows, cols, A)
          /\ toggles = SetToBag(A)
    /\ next_grid = init_grid(rows, cols)
    /\ loaded = init_grid(rows, cols)
    /\ heap = "allocated"
    /\ pc = "run"
    /\ paused = FALSE
    /\ filename = <<>>
    /\ scr = draw_grid(grid, rows, cols)
    /\ status = <<EditMsg, <<>>>>
    /\ exitcode = <<>>
    /\ opened = {}
    /\ keys \in Bursts

NextBurst == \E ch \in RunKeys : RunTick(ch)

SpecBurst == InitBurst /\ [][NextBurst]_vars

(***************************************************************************)
(* The setup phase on terminals as wide as the line buffer of              *)
(* import_grid_from_file: clicks and saves, no import and no simulation.   *)
(***************************************************************************)
InitWide ==
    /\ term \in {[rows |-> 2, cols |-> BUFSZ], [rows |-> 3, cols |-> BUFSZ - 1]}
    /\ argv = Args(<<Prog>>)
    /\ disk = [n \in {InName} |-> <<ALIVE>>]
    /\ InitProcess

NextWide ==
    \/ Boot
    \/ \E y \in -1..rows, x \in ClickCols(cols) : EditClick(y, x)
    \/ EditSavePrompt
    \/ \E k \in PromptKeys : PromptType(k)
    \/ PromptEnter
    \/ SaveMsgDone

SpecWide == InitWide /\ [][NextWide]_vars

(***************************************************************************)
(* Reference notions of the specification, stated without the code.        *)
(***************************************************************************)
Cells == (0..(rows - 1)) \X (0..(cols - 1))

\* The Simulation State of the specification.
SimState ==
    IF pc = "done" THEN "Terminated"
    ELSE IF pc = "run" THEN (IF paused THEN "Paused" ELSE "Running")
    ELSE "Editing"

\* Conway's rule on the pre-step grid g: is cell (r, c) alive afterwards?
ConwayAlive(g, r, c) ==
    LET n == Cardinality({q \in Cells :
                 /\ q # <<r, c>>
                 /\ q[1] - r \in -1..1
                 /\ q[2] - c \in -1..1
                 /\ g[q[1]][q[2]] = ALIVE})
    IN  IF g[r][c] = ALIVE THEN n \in {2, 3} ELSE n = 3

\* The lines of a file: the text between newlines, a last line without
\* newline included.
RECURSIVE LinesOf(_)
LinesOf(f) ==
    IF f = <<>> THEN <<>>
    ELSE LET N == {k \in 1..Len(f) : f[k] = NL}
         IN  IF N = {} THEN <<f>>
             ELSE <<SubSeq(f, 1, MinOf(N) - 1)>>
                  \o LinesOf(SubSeq(f, MinOf(N) + 1, Len(f)))

\* The startup import opened its file.
Imported ==
    /\ pc # "boot"
    /\ \E o \in opened : o[2] = "r" /\ o[1] \in DOMAIN disk

\* The file the startup import read.
ImportedFile == disk[(CHOOSE o \in opened : o[2] = "r")[1]]

\* A save attempt has just succeeded and its message is on the status row.
JustSaved == pc = "savemsg" /\ status[1] = SavedMsg

(***************************************************************************)
(* C1: one step gives every cell its Conway successor computed from the    *)
(* pre-step grid: alive after the step iff it was alive with 2 or 3 alive  *)
(* in-bounds neighbours, or dead with exactly 3.                           *)
(***************************************************************************)
C1_StepIsConway ==
    [][(pc = "run" /\ pc' = "run" /\ ~paused') =>
          \A q \in Cells :
             /\ grid'[q[1]][q[2]] \in {ALIVE, DEAD}
             /\ (grid'[q[1]][q[2]] = ALIVE) <=> ConwayAlive(grid, q[1], q[2])]_vars

\* The horizontal blinker was set up on a 3 x 3 grid and has been stepped
\* into the vertical one.
C1_Witness ==
    /\ rows = 3 /\ cols = 3 /\ pc = "run"
    /\ toggles = SetToBag({<<1, 0>>, <<1, 1>>, <<1, 2>>})
    /\ grid = GridOf(3, 3, {<<0, 1>>, <<1, 1>>, <<2, 1>>})
    /\ next_grid = grid

(***************************************************************************)
(* C2: a saved grid loaded again into a fresh grid of the same dimensions  *)
(* is the grid that was saved.                                             *)
(***************************************************************************)
C2_RoundTripIdentity ==
    JustSaved =>
        import_grid_from_file(disk[status[2]], init_grid(rows, cols), rows, cols)
            = grid

(***************************************************************************)
(* C3: the driver starts in Editing and its state only moves Editing ->    *)
(* Running on 's', Running <-> Paused on 'p', Running or Paused ->         *)
(* Terminated on 'q'; outside Editing no cell is toggled and no file is    *)
(* opened or written.                                                      *)
(***************************************************************************)
C3_Transitions ==
    [][/\ pc = "boot" => SimState = "Editing"
       /\ \/ SimState' = SimState
          \/ SimState = "Editing" /\ SimState' = "Running" /\ EditStart
          \/ SimState = "Running" /\ SimState' = "Paused" /\ RunTick("p")
          \/ SimState = "Paused" /\ SimState' = "Running" /\ RunTick("p")
          \/ SimState \in {"Running", "Paused"} /\ SimState' = "Terminated"
             /\ RunTick("q")
       /\ SimState # "Editing" =>
             toggles' = toggles /\ opened' = opened /\ disk' = disk]_vars

\* A grid was edited, the simulation started and then paused.
C3_Witness ==
    pc = "run" /\ paused /\ BagCardinality(toggles) > 0 /\ next_grid = grid

(***************************************************************************)
(* C4: a tick that ends not paused advances the grid by one generation, a  *)
(* tick that ends paused leaves grid and workspace as they are.            *)
(***************************************************************************)
C4_TickStepsUnlessPaused ==
    [][(pc = "run" /\ pc' = "run") =>
          IF paused'
          THEN grid' = grid /\ next_grid' = next_grid
          ELSE \A q \in Cells :
                  (grid'[q[1]][q[2]] = ALIVE) <=> ConwayAlive(grid, q[1], q[2])]_vars

\* The block on a 3 x 3 grid corner has been stepped at least once and the
\* simulation is paused on it.
C4_Witness ==
    /\ rows = 3 /\ cols = 3 /\ pc = "run" /\ paused
    /\ toggles = SetToBag({<<0, 0>>, <<0, 1>>, <<1, 0>>})
    /\ grid = GridOf(3, 3, {<<0, 0>>, <<0, 1>>, <<1, 0>>, <<1, 1>>})
    /\ next_grid = grid

(***************************************************************************)
(* C5: after an import, for every row i below both the row count and the   *)
(* file's line count, cell (i, j) is alive iff line i of the file has '#'  *)
(* at position j.                                                          *)
(***************************************************************************)
C5_LineDeterminesRow ==
    Imported =>
        \A i \in 0..(Min(rows, Len(LinesOf(ImportedFile))) - 1), j \in 0..(cols - 1) :
            (loaded[i][j] = ALIVE) <=>
                (j < Len(LinesOf(ImportedFile)[i + 1])
                    /\ LinesOf(ImportedFile)[i + 1][j + 1] = ALIVE)

(***************************************************************************)
(* C6: after an import of a file with fewer lines than the grid has rows,  *)
(* every row at or beyond the file's line count is all dead.               *)
(***************************************************************************)
C6_RowsBeyondFileDead ==
    Imported =>
        \A i \in Len(LinesOf(ImportedFile))..(rows - 1), j \in 0..(cols - 1) :
            loaded[i][j] = DEAD

(***************************************************************************)
(* C7: a successful save writes exactly `rows` lines, each of exactly      *)
(* `cols` characters and a newline, character j of line i being '#' if     *)
(* cell (i, j) is alive and '-' if not, and nothing else.                  *)
(***************************************************************************)
C7_SaveFormat ==
    JustSaved =>
        /\ Len(disk[status[2]]) = rows * (cols + 1)
        /\ \A i \in 0..(rows - 1) :
              /\ disk[status[2]][i * (cols + 1) + cols + 1] = NL
              /\ \A j \in 0..(cols - 1) :
                    disk[status[2]][i * (cols + 1) + j + 1] =
                        (IF grid[i][j] = ALIVE THEN "#" ELSE "-")

\* A 2 x 2 grid with alive and dead cells has just been saved.
C7_Witness ==
    /\ JustSaved /\ rows = 2 /\ cols = 2
    /\ grid[0][0] = ALIVE /\ grid[1][1] = DEAD
    /\ BagCardinality(toggles) > 0

(***************************************************************************)
(* C8: in Editing a click at (x, y) inside the grid flips cell (y, x) and  *)
(* leaves every other cell as it is; a click outside the grid (the status  *)
(* row included) changes nothing at all: a step that changes anything is   *)
(* the step of no click outside the grid.                                  *)
(***************************************************************************)
C8_ClickTogglesOneCell ==
    [][/\ \A q \in Cells :
             EditClick(q[1], q[2]) =>
                /\ grid[q[1]][q[2]] = DEAD <=> grid'[q[1]][q[2]] = ALIVE
                /\ grid[q[1]][q[2]] = ALIVE <=> grid'[q[1]][q[2]] = DEAD
                /\ \A i \in 0..(rows - 1), j \in 0..cols :
                      <<i, j>> # q => grid'[i][j] = grid[i][j]
                /\ SimState' = "Editing"
       /\ \/ UNCHANGED vars
          \/ \A y \in -1..rows, x \in -1..cols :
                <<y, x>> \notin Cells => ~EditClick(y, x)]_vars

\* Cell (1, 1) of a 2 x 2 grid has been clicked once and is the only cell
\* that differs from the grid before the clicks.
C8_Witness ==
    /\ pc = "edit" /\ rows = 2 /\ cols = 2
    /\ toggles = SetToBag({<<1, 1>>})
    /\ grid[1][1] # loaded[1][1]
    /\ \A q \in Cells : q # <<1, 1>> => grid[q[1]][q[2]] = loaded[q[1]][q[2]]

(***************************************************************************)
(* C9: during the setup phase a cell differs from its value at the start   *)
(* of the phase (all dead without import, the loaded value with one) iff   *)
(* it was toggled an odd number of times.                                  *)
(***************************************************************************)
C9_ToggleParity ==
    pc \in {"edit", "prompt", "savemsg"} =>
        \A q \in Cells :
            /\ (grid[q[1]][q[2]] # loaded[q[1]][q[2]]) <=>
                  (CopiesIn(q, toggles) % 2 = 1)
            /\ ~Imported =>
                  ((grid[q[1]][q[2]] = ALIVE) <=> (CopiesIn(q, toggles) % 2 = 1))

\* A cell loaded alive has been toggled twice and is alive again.
C9_Witness ==
    /\ pc = "edit" /\ Imported
    /\ \E q \in Cells :
          /\ CopiesIn(q, toggles) = 2
          /\ loaded[q[1]][q[2]] = ALIVE
          /\ grid[q[1]][q[2]] = ALIVE

(***************************************************************************)
(* C10 as stated: unless the arguments are exactly `--import <path>`, no   *)
(* file is opened at startup and the initial grid is all dead.             *)
(***************************************************************************)
C10_ImportOnlyExactForm ==
    (pc # "boot" /\ ~(argc = 3 /\ argv[1] = ImportFlag)) =>
        /\ \A o \in opened : o[2] # "r"
        /\ loaded = init_grid(rows, cols)

(***************************************************************************)
(* C10 as amended: the program imports argv[2] at startup iff there are at *)
(* least two arguments and the first is --import (further arguments are    *)
(* ignored); otherwise no file is opened and the initial grid is all dead. *)
(***************************************************************************)
C10_ImportIffFlagAndPath ==
    pc # "boot" =>
        IF argc >= 3 /\ argv[1] = ImportFlag
        THEN {o \in opened : o[2] = "r"} = {<<argv[2], "r">>}
        ELSE /\ \A o \in opened : o[2] # "r"
             /\ loaded = init_grid(rows, cols)

\* `--import f -x` was given and the setup phase started from the grid of f.
C10_Witness ==
    /\ pc = "edit" /\ argc = 4 /\ argv[1] = ImportFlag
    /\ <<argv[2], "r">> \in opened
    /\ \E q \in Cells : loaded[q[1]][q[2]] = ALIVE

(***************************************************************************)
(* C11: a load whose file cannot be opened is never fatal: while its       *)
(* message is shown the status row holds the load-failure message with the *)
(* file name and the grid is all dead; the step that follows enters        *)
(* Editing with the screen, the status row and the grids of a start        *)
(* without --import, and the program has not exited.                       *)
(***************************************************************************)
C11_FailedLoadNotFatal ==
    [][/\ (pc = "boot" /\ argc >= 3 /\ argv[1] = ImportFlag
              /\ argv[2] \notin DOMAIN disk) =>
             /\ pc' = "bootmsg"
             /\ status' = <<ImportErrMsg, argv[2]>>
             /\ \A i \in 0..(rows' - 1), j \in 0..(cols' - 1) :
                   grid'[i][j] = DEAD
             /\ exitcode' = <<>>
       /\ pc = "bootmsg" =>
             /\ pc' = "edit" /\ SimState' = "Editing"
             /\ \A q \in Cells : grid'[q[1]][q[2]] = DEAD
             /\ grid' = init_grid(term.rows - 1, term.cols)
             /\ next_grid' = grid'
             /\ loaded' = grid'
             /\ scr' = [i \in 0..(rows - 1) |-> Rep(DEAD, cols)]
             /\ status' = <<EditMsg, <<>>>>
             /\ toggles' = EmptyBag /\ paused' = FALSE
             /\ exitcode' = <<>>]_vars

\* The import of a missing file has failed and, from the all-dead grid of a
\* 2 x 2 terminal, a cell has been clicked alive in the setup phase.
C11_Witness ==
    /\ pc = "edit" /\ rows = 2 /\ cols = 2
    /\ <<MissingName, "r">> \in opened /\ MissingName \notin DOMAIN disk
    /\ loaded = init_grid(rows, cols)
    /\ toggles = SetToBag({<<0, 1>>}) /\ grid[0][1] = ALIVE

(***************************************************************************)
(* C12: a save attempt from the Editing save prompt leaves the grid        *)
(* unchanged at each of its steps, shows the save-failure message when the *)
(* file could not be written and the saved message when it was, and then   *)
(* returns to Editing with the grid and the edit instruction line drawn    *)
(* again; the program does not terminate.                                  *)
(***************************************************************************)
C12_SaveReturnsToEditing ==
    [][(pc' \in {"prompt", "savemsg"} \/ pc \in {"prompt", "savemsg"}) =>
          /\ grid' = grid /\ next_grid' = next_grid
          /\ rows' = rows /\ cols' = cols
          /\ SimState' = "Editing" /\ exitcode' = <<>> /\ heap' = heap
          /\ (pc = "prompt" /\ pc' # "prompt") =>
                /\ pc' = "savemsg"
                /\ IF filename \in DOMAIN disk' /\ filename # <<>>
                   THEN status' = <<SavedMsg, filename>>
                   ELSE status' = <<SaveErrMsg, filename>> /\ disk' = disk
          /\ pc = "savemsg" =>
                /\ pc' = "edit"
                /\ status' = <<EditMsg, <<>>>>
                /\ scr' = draw_grid(grid, rows, cols)
                /\ disk' = disk]_vars

\* A save under the empty file name has failed, the setup phase went on
\* with a click, and the grid still holds what was clicked before the save.
C12_Witness ==
    /\ pc = "edit" /\ rows = 2 /\ cols = 2
    /\ <<<<>>, "w">> \in opened
    /\ status = <<EditMsg, <<>>>>
    /\ toggles = SetToBag({<<0, 0>>, <<1, 1>>})
    /\ grid[0][0] = ALIVE /\ grid[1][1] = ALIVE

(***************************************************************************)
(* C13: Terminated is entered only by the tick of the run phase that polls *)
(* 'q', which does nothing else (no step, no change of the pause flag);    *)
(* no step of Editing, 'q' included, and no failed save or load enters it; *)
(* the exit code, once there is one, is 0.                                 *)
(***************************************************************************)
C13_OnlyQuitTerminates ==
    [][/\ (SimState' = "Terminated" /\ SimState # "Terminated") =>
             /\ SimState \in {"Running", "Paused"}
             /\ RunTick("q")
             /\ grid' = grid /\ paused' = paused
             /\ exitcode' = <<0>>
       /\ SimState = "Editing" => SimState' # "Terminated"
       /\ (pc = "edit" /\ EditIgnore("q")) => UNCHANGED vars
       /\ exitcode' # <<>> => (exitcode' = <<0>> /\ SimState' = "Terminated")
       /\ SimState' # "Terminated" => exitcode' = <<>>]_vars

\* The program has ended with exit code 0 after a failed load and a failed
\* save.
C13_Witness ==
    /\ pc = "done" /\ exitcode = <<0>>
    /\ <<MissingName, "r">> \in opened /\ MissingName \notin DOMAIN disk
    /\ <<<<>>, "w">> \in opened

(***************************************************************************)
(* C14: in Running and Paused the tick that polls a mouse click or a key   *)
(* other than 'p' and 'q' ('s' and 'w' included) is the tick that polls no *)
(* event: the same steps, with the pause flag and the state as they were   *)
(* and, in Paused, the grid as it was.                                     *)
(***************************************************************************)
C14_OtherKeysAreNoEvent ==
    [][pc = "run" =>
          IF RunTick(ERR)
          THEN /\ \A ch \in RunKeys \ {"p", "q", ERR} : RunTick(ch)
               /\ paused' = paused /\ SimState' = SimState
               /\ paused => grid' = grid
          ELSE \A ch \in RunKeys \ {"p", "q", ERR} : ~RunTick(ch)]_vars

\* The simulation is paused on a grid with alive cells after at least one
\* step: every further tick polls one of the keys of RunKeys.
C14_Witness ==
    /\ pc = "run" /\ paused /\ status = <<PauseMsg, <<>>>>
    /\ rows = 3 /\ cols = 3
    /\ toggles = SetToBag({<<1, 0>>, <<1, 1>>, <<1, 2>>})
    /\ grid = GridOf(3, 3, {<<0, 1>>, <<1, 1>>, <<2, 1>>})

(***************************************************************************)
(* C15: in the run phase each tick takes at most one key from the input    *)
(* queue, the oldest: with keys queued, the tick is the tick of the first  *)
(* of them and leaves the others queued in their order, so each queued 'p' *)
(* flips the pause flag on a tick of its own.                              *)
(***************************************************************************)
C15_OneKeyPerTick ==
    [][(pc = "run" /\ keys # <<>>) =>
          /\ keys' = Tail(keys)
          /\ RunTick(Head(keys))
          /\ \A ch \in RunKeys : RunTick(ch) => ch = Head(keys)
          /\ Head(keys) = "p" => (pc' = "run" /\ paused' = ~paused)
          /\ Head(keys) \notin {"p", "q"} => (pc' = "run" /\ paused' = paused)
          /\ Head(keys) = "q" => pc' = "done"]_vars

\* Of a burst of 'p' keys two have been polled, on two ticks: the
\* simulation has stepped the blinker once, was paused by the first 'p'
\* and resumed by the second, and the third 'p' is still queued.
C15_Witness ==
    /\ pc = "run" /\ ~paused /\ keys = <<"p">>
    /\ rows = 1 /\ cols = 3
    /\ toggles = SetToBag({<<0, 0>>, <<0, 1>>, <<0, 2>>})
    /\ grid = GridOf(1, 3, {<<0, 1>>})
    /\ status = <<RunMsg, <<>>>>

(***************************************************************************)
(* C16: once the grid is created it has R >= 1 rows and C >= 1 columns,    *)
(* with R = screen_rows - 1 and C = screen_cols: on a terminal that would  *)
(* give R < 1 or C < 1 no grid is produced and the driver does not go on.  *)
(***************************************************************************)
C16_GridAtLeastOneCell ==
    pc # "boot" =>
        /\ rows = term.rows - 1 /\ cols = term.cols
        /\ heap = "allocated" => (rows >= 1 /\ cols >= 1)
        /\ (term.rows - 1 < 1 \/ term.cols < 1) => SimState = "Terminated"

(***************************************************************************)
(* C17: in every state after startup the grid has the R rows and C columns *)
(* fixed at startup and every cell is '#' or '-', whatever was loaded,     *)
(* toggled, saved or stepped.                                              *)
(***************************************************************************)
C17_DimensionsAndCells ==
    pc # "boot" =>
        /\ rows = term.rows - 1 /\ cols = term.cols
        /\ DOMAIN grid = 0..(rows - 1)
        /\ \A i \in 0..(rows - 1) :
              /\ DOMAIN grid[i] = 0..cols
              /\ \A j \in 0..(cols - 1) : grid[i][j] \in {ALIVE, DEAD}

\* A file with a byte that is neither '#' nor '-' was loaded, a cell was
\* toggled, the grid was saved and the simulation has stepped to a grid
\* with an alive cell.
C17_Witness ==
    /\ pc = "run" /\ status = <<RunMsg, <<>>>>
    /\ Imported /\ \E k \in 1..Len(ImportedFile) : ImportedFile[k] = "x"
    /\ toggles # EmptyBag
    /\ \E o \in opened : o[2] = "w" /\ o[1] \in DOMAIN disk
    /\ \E q \in Cells : grid[q[1]][q[2]] = ALIVE

(***************************************************************************)
(* C18: the grid has hard boundaries: a step leaves dead every cell that   *)
(* has no alive cell among those next to it inside the grid, whatever is   *)
(* alive on the opposite edge; so a single alive cell, in a corner, on an  *)
(* edge or elsewhere, is dead after one step and the grid is all dead.     *)
(***************************************************************************)
C18_NoWrapAround ==
    [][(pc = "run" /\ pc' = "run" /\ ~paused') =>
          /\ \A q \in Cells :
                (\A p \in Cells :
                    (p # q /\ p[1] - q[1] \in -1..1 /\ p[2] - q[2] \in -1..1)
                        => grid[p[1]][p[2]] = DEAD)
                => grid'[q[1]][q[2]] = DEAD
          /\ Cardinality({q \in Cells : grid[q[1]][q[2]] = ALIVE}) = 1 =>
                \A q \in Cells : grid'[q[1]][q[2]] = DEAD]_vars

\* The corner cell (0, 0) of a 3 x 3 grid was the only alive cell when the
\* simulation started, and after a step the grid is all dead.
C18_Witness ==
    /\ pc = "run" /\ rows = 3 /\ cols = 3
    /\ toggles = SetToBag({<<0, 0>>})
    /\ status = <<RunMsg, <<>>>>
    /\ \A q \in Cells : grid[q[1]][q[2]] = DEAD

(***************************************************************************)
(* C19: an all-dead grid is a fixed point of the run phase: a tick that    *)
(* starts with the grid all dead ends with it all dead, whichever event it *)
(* polls.                                                                  *)
(***************************************************************************)
C19_AllDeadFixedPoint ==
    [][(pc = "run" /\ \A q \in Cells : grid[q[1]][q[2]] = DEAD) =>
          (\A q \in Cells : grid'[q[1]][q[2]] = DEAD)]_vars

\* The simulation was started on a 3 x 3 grid with no cell clicked, has
\* stepped, and the grid is all dead.
C19_Witness ==
    /\ pc = "run" /\ ~paused /\ rows = 3 /\ cols = 3
    /\ toggles = EmptyBag
    /\ status = <<RunMsg, <<>>>>
    /\ grid = init_grid(3, 3)

(***************************************************************************)
(* C20: the step does not depend on the workspace: the grid a stepping     *)
(* tick leaves is the one update_generation gives from the same grid with  *)
(* any other workspace, be it all dead, all alive, the grid itself or its  *)
(* complement; so equal grids have equal successors.                       *)
(***************************************************************************)
C20_StepIgnoresWorkspace ==
    [][(pc = "run" /\ pc' = "run" /\ ~paused') =>
          \A ng \in { init_grid(rows, cols),
                      GridOf(rows, cols, Cells),
                      grid,
                      GridOf(rows, cols,
                             {q \in Cells : grid[q[1]][q[2]] = DEAD}) } :
             /\ update_generation(grid, ng, rows, cols).grid = grid'
             /\ update_generation(grid, ng, rows, cols).next_grid = next_grid']_vars

\* The blinker of a 3 x 3 grid is back in its first phase: the last step
\* ran with the workspace holding the phase before, the first with the
\* workspace all dead.
C20_Witness ==
    /\ pc = "run" /\ rows = 3 /\ cols = 3
    /\ toggles = SetToBag({<<1, 0>>, <<1, 1>>, <<1, 2>>})
    /\ grid = GridOf(3, 3, {<<1, 0>>, <<1, 1>>, <<1, 2>>})
    /\ next_grid = grid
    /\ status = <<RunMsg, <<>>>>

(***************************************************************************)
(* C21: the redraw is idempotent and a function of the grid and the        *)
(* instruction only: drawing the grid on the screen as it is, and then     *)
(* once more, gives the same rows as drawing it once, and the same as      *)
(* drawing it on a blank screen or on a screen full of '#'; rows 0..R-1    *)
(* then show the cells as '#' and '-', and they are what the screen shows  *)
(* after every redraw the program has made, with the instruction alone on  *)
(* row R.                                                                  *)
(***************************************************************************)
C21_RedrawIdempotent ==
    pc # "boot" =>
        LET once == draw_grid_on(scr, grid, rows, cols)
        IN  /\ draw_grid_on(once, grid, rows, cols) = once
            /\ draw_grid_on(Blank(rows, cols), grid, rows, cols) = once
            /\ draw_grid_on([i \in 0..(rows - 1) |-> Rep(ALIVE, cols)],
                            grid, rows, cols) = once
            /\ \A q \in Cells :
                  /\ once[q[1]][q[2] + 1] = grid[q[1]][q[2]]
                  /\ once[q[1]][q[2] + 1] \in {"#", "-"}
            /\ \A i \in 0..(rows - 1) : Len(once[i]) = cols
            /\ pc # "bootmsg" => scr = once
            /\ pc = "edit" => status = <<EditMsg, <<>>>>
            /\ (pc = "run" /\ status[1] # EditMsg) =>
                  status = <<IF paused THEN PauseMsg ELSE RunMsg, <<>>>>

\* The 2 x 2 grid was drawn all dead at startup and drawn again after the
\* click that set cell (1, 1) alive: the screen shows the grid.
C21_Witness ==
    /\ pc = "edit" /\ rows = 2 /\ cols = 2
    /\ toggles = SetToBag({<<1, 1>>})
    /\ loaded = init_grid(2, 2)
    /\ scr = [i \in 0..1 |-> IF i = 1 THEN <<"-", "#">> ELSE <<"-", "-">>]

(***************************************************************************)
(* C22: pause, resume and quit take effect within the tick that polls the  *)
(* key: the tick that polls 'p' in Running makes no step and draws the     *)
(* grid with the paused instruction; the tick that polls 'p' in Paused     *)
(* makes one step and draws the stepped grid with the running instruction; *)
(* the tick that polls 'q' makes no step and no redraw, so the grid at     *)
(* termination is the grid the tick before left.                           *)
(***************************************************************************)
C22_KeyActsWithinItsTick ==
    [][pc = "run" =>
          /\ (RunTick("p") /\ SimState = "Running") =>
                /\ SimState' = "Paused"
                /\ grid' = grid /\ next_grid' = next_grid
                /\ scr' = draw_grid(grid, rows, cols)
                /\ status' = <<PauseMsg, <<>>>>
          /\ (RunTick("p") /\ SimState = "Paused") =>
                /\ SimState' = "Running"
                /\ \A q \in Cells :
                      (grid'[q[1]][q[2]] = ALIVE) <=> ConwayAlive(grid, q[1], q[2])
                /\ scr' = draw_grid(grid', rows, cols)
                /\ status' = <<RunMsg, <<>>>>
          /\ RunTick("q") =>
                /\ SimState' = "Terminated"
                /\ grid' = grid /\ next_grid' = next_grid
                /\ scr' = scr /\ status' = status]_vars

\* The first tick polled 'p': the blinker of a 3 x 3 grid is still in the
\* phase that was set up, never stepped, under the paused instruction.
C22_Witness ==
    /\ pc = "run" /\ paused /\ rows = 3 /\ cols = 3
    /\ toggles = SetToBag({<<1, 0>>, <<1, 1>>, <<1, 2>>})
    /\ grid = GridOf(3, 3, {<<1, 0>>, <<1, 1>>, <<1, 2>>})
    /\ next_grid = init_grid(3, 3)
    /\ status = <<PauseMsg, <<>>>>

(***************************************************************************)
(* C23: every grid access is in bounds, for every terminal size, click     *)
(* position and input file: the toggle, count_neighbors, update_generation *)
(* and draw_grid use rows in [0, R) and columns in [0, C); the load writes *)
(* such cells and, at column C, the terminator of the rows it fills; the   *)
(* save reads such cells and, at column C, the terminator.                 *)
(***************************************************************************)
C23_AccessesInBounds ==
    pc # "boot" =>
        /\ \A y \in -1..rows, x \in -1..cols :
              ToggleCells(y, x, rows, cols) \subseteq Cells
        /\ \A q \in Cells :
              /\ NeighborReads(rows, cols, q[1], q[2]) \subseteq Cells
              /\ count_neighbors(grid, rows, cols, q[1], q[2]) =
                    Cardinality({p \in NeighborReads(rows, cols, q[1], q[2]) :
                                    grid[p[1]][p[2]] = ALIVE})
        /\ StepCells(rows, cols) \subseteq Cells
        /\ DrawReads(grid, rows, cols) \subseteq Cells
        /\ Imported =>
              /\ LoadCells(ImportedFile, rows, cols) \subseteq Cells
              /\ LoadTerminators(ImportedFile, rows, cols)
                    \subseteq (0..(rows - 1)) \X {cols}
        /\ \A p \in SaveReads(grid, rows) :
              /\ p[1] \in 0..(rows - 1) /\ p[2] \in 0..cols
              /\ p[2] = cols <=> grid[p[1]][p[2]] = NUL

\* On a 2 x 2 grid loaded from a file with a line longer than the grid is
\* wide and more lines than the grid has rows, a cell of the last row and
\* column was toggled, the grid was saved and the simulation has stepped.
C23_Witness ==
    /\ pc = "run" /\ rows = 2 /\ cols = 2 /\ status[1] = RunMsg
    /\ Imported /\ ImportedFile = <<DEAD, ALIVE, "x", NL, NL, ALIVE, NL>>
    /\ CopiesIn(<<1, 1>>, toggles) = 1
    /\ \E o \in opened : o[2] = "w" /\ o[1] \in DOMAIN disk

(***************************************************************************)
(* C24: the save prompt is modal.  Between 'w' and the Enter that ends the  *)
(* line, every key, 's', 'w', 'q' and 'p' included, is appended to the file *)
(* name and changes neither the simulation state nor the grid; the prompt   *)
(* is left only by Enter, into the save attempt, and the save attempt only  *)
(* into the editing loop; Running is entered only by an 's' read by the     *)
(* editing loop.                                                            *)
(***************************************************************************)
C24_PromptIsModal ==
    [][/\ \A k \in PromptKeys :
              PromptType(k) =>
                  /\ filename' = Append(filename, k)
                  /\ pc' = "prompt" /\ SimState' = "Editing"
                  /\ grid' = grid /\ next_grid' = next_grid
                  /\ paused' = paused /\ disk' = disk
                  /\ exitcode' = exitcode
       /\ pc = "prompt" =>
              /\ pc' \in {"prompt", "savemsg"}
              /\ grid' = grid
              /\ pc' = "savemsg" => <<filename, "w">> \in opened'
       /\ pc = "savemsg" => (pc' = "edit" /\ grid' = grid)
       /\ (pc # "run" /\ pc' = "run") => (pc = "edit" /\ EditStart)]_vars

\* A grid with a live cell was saved under the name "sw", typed at the
\* prompt, and a later 's' started the simulation, which has not stepped.
C24_Witness ==
    /\ pc = "run" /\ ~paused /\ status[1] # RunMsg
    /\ <<<<"s", "w">>, "w">> \in opened
    /\ <<"s", "w">> \in DOMAIN disk
    /\ disk[<<"s", "w">>] = save_grid_to_file(grid, rows)
    /\ \E q \in Cells : grid[q[1]][q[2]] = ALIVE

====
